---- MODULE Spec2Model ----
(***************************************************************************)
(* A model of the ingestion pipeline of Personal_Accounts (src/main.py):   *)
(* find_header_row, process_wechat_file, process_alipay_file and           *)
(* find_and_process_all_files.                                             *)
(*                                                                         *)
(* Text is a sequence of characters.  A Chinese character of the source is *)
(* written as its pinyin syllable, one token per character, so that the    *)
(* substring tests of the code are substring tests here:                   *)
(*   交易时间 = <<"jiao","yi","shi","jian">>,  收/支 = <<"shou","/","zhi">>.    *)
(***************************************************************************)
EXTENDS Integers, Sequences, FiniteSets, TLC

----------------------------------------------------------------------------
(* Text *)

DigitChars == <<"0", "1", "2", "3", "4", "5", "6", "7", "8", "9">>

IsDigit(c) == \E d \in 1..Len(DigitChars) : DigitChars[d] = c

DigitVal(c) == (CHOOSE d \in 1..Len(DigitChars) : DigitChars[d] = c) - 1

\* Python's `sub in s` on strings.
Contains(s, sub) ==
    \E i \in 0..(Len(s) - Len(sub)) : SubSeq(s, i + 1, i + Len(sub)) = sub

\* Python's str.endswith.
EndsWith(s, suffix) ==
    /\ Len(suffix) <= Len(s)
    /\ SubSeq(s, Len(s) - Len(suffix) + 1, Len(s)) = suffix

RECURSIVE StripLeft(_)
StripLeft(s) ==
    IF s # <<>> /\ Head(s) = " " THEN StripLeft(Tail(s)) ELSE s

RECURSIVE StripRight(_)
StripRight(s) ==
    IF s # <<>> /\ s[Len(s)] = " " THEN StripRight(SubSeq(s, 1, Len(s) - 1)) ELSE s

\* Python's str.strip().
Strip(s) == StripRight(StripLeft(s))

\* Decimal digits of a natural number.
RECURSIVE NatText(_)
NatText(n) ==
    IF n < 10 THEN <<DigitChars[n + 1]>>
    ELSE NatText(n \div 10) \o <<DigitChars[(n % 10) + 1]>>

\* Value of a sequence of digits.
RECURSIVE DigitsValue(_)
DigitsValue(s) ==
    IF s = <<>> THEN 0
    ELSE 10 * DigitsValue(SubSeq(s, 1, Len(s) - 1)) + DigitVal(s[Len(s)])

----------------------------------------------------------------------------
(* Cells of a table.  A cell is a Python object held in a DataFrame: a     *)
(* str, a float, an int, a timestamp, or the missing value (NaN / NaT).    *)
(* Numbers are held in units of 10^-Scale.                                 *)

Scale == 5

Unit == 10 ^ Scale

Str(s) == [k |-> "str", s |-> s, v |-> 0]

NaN == [k |-> "nan", s |-> <<>>, v |-> 0]

Float(v) == [k |-> "float", s |-> <<>>, v |-> v]

Int64(v) == [k |-> "int", s |-> <<>>, v |-> v]

Timestamp(v) == [k |-> "datetime", s |-> <<>>, v |-> v]

\* A pandas Period of frequency 'M': the month, counted from the origin of
\* the model's instants.
Period(v) == [k |-> "period", s |-> <<>>, v |-> v]

\* A Python int that is an amount in whole yuan (the amounts random.randint
\* draws in create_sample_data).
PyInt(v) == [k |-> "pyint", s |-> <<>>, v |-> v]

IsNull(c) == c.k = "nan"

IsNumeric(c) == c.k \in {"float", "int"}

Abs(n) == IF n < 0 THEN -n ELSE n

\* The digits of n, left-padded with zeros to the given width.
PadText(n, width) ==
    LET d == NatText(n)
    IN  [i \in 1..(width - Len(d)) |-> "0"] \o d

\* Trailing zeros removed.
RECURSIVE TrimZeros(_)
TrimZeros(s) ==
    IF s # <<>> /\ s[Len(s)] = "0" THEN TrimZeros(SubSeq(s, 1, Len(s) - 1)) ELSE s

\* Python's repr of a float, which is what str(x) and Series.astype(str) give:
\* the shortest decimal text, in scientific notation when the decimal exponent
\* is below -4 ("1e-05"), otherwise with a decimal point and at least one
\* fractional digit ("12.5", "3.0").  (The other scientific range, 1e16 and
\* above, is outside the integers of the model.)
FloatRepr(v) ==
    LET a == Abs(v)
        sign == IF v < 0 THEN <<"-">> ELSE <<>>
        digits == NatText(a)
        frac == TrimZeros(PadText(a % Unit, Scale))
        mant == TrimZeros(Tail(digits))
    IN  IF a # 0 /\ a < Unit \div 10000
        THEN sign \o <<Head(digits)>>
                  \o (IF mant = <<>> THEN <<>> ELSE <<".">> \o mant)
                  \o <<"e", "-">> \o PadText(Scale - Len(digits) + 1, 2)
        ELSE sign \o NatText(a \div Unit) \o <<".">>
                  \o (IF frac = <<>> THEN <<"0">> ELSE frac)

\* Python's str of an int.
IntRepr(v) ==
    (IF v < 0 THEN <<"-">> ELSE <<>>) \o NatText(Abs(v) \div Unit)

\* str(x) of a cell, as ''.join(str(s) ...) and Series.astype(str) compute it.
\* A timestamp of the model prints as the digits of its instant.
PyStr(c) ==
    CASE c.k = "str" -> c.s
      [] c.k = "nan" -> <<"n", "a", "n">>
      [] c.k = "float" -> FloatRepr(c.v)
      [] c.k = "int" -> IntRepr(c.v)
      [] c.k = "datetime" -> NatText(c.v)

----------------------------------------------------------------------------
(* Coercions of the cleaning steps *)

\* KeepsAmountChar for the pattern [^\d.]: the minus sign is removed too.
KeepsAmountCharNoMinus(c) == IsDigit(c) \/ c = "."

\* str.replace(r'[^\d.-]', '', regex=True): every character that is not a
\* digit, '.' or '-' is removed.
KeepsAmountChar(c) == IsDigit(c) \/ c = "." \/ c = "-"

Sanitize(s) == SelectSeq(s, KeepsAmountChar)

AllDigits(s) == \A i \in 1..Len(s) : IsDigit(s[i])

Unsigned(s) == IF s # <<>> /\ Head(s) = "-" THEN Tail(s) ELSE s

DotCount(s) == Cardinality({i \in 1..Len(s) : s[i] = "."})

\* An integer literal: an optional leading '-', then digits.
IsIntLiteral(s) == Unsigned(s) # <<>> /\ AllDigits(Unsigned(s))

\* A signed decimal: an optional leading '-', digits with at most one '.',
\* at least one digit.
IsDecimalLiteral(s) ==
    LET b == Unsigned(s)
    IN  /\ \A i \in 1..Len(b) : IsDigit(b[i]) \/ b[i] = "."
        /\ DotCount(b) <= 1
        /\ \E i \in 1..Len(b) : IsDigit(b[i])

\* The value of a signed decimal, in units of 10^-Scale (digits beyond Scale
\* fractional places are cut).
DecimalValue(s) ==
    LET b == Unsigned(s)
        dot == IF DotCount(b) = 0 THEN Len(b) + 1
               ELSE CHOOSE i \in 1..Len(b) : b[i] = "."
        whole == SubSeq(b, 1, dot - 1)
        frac == SubSeq(b, dot + 1, Len(b))
        fracS == [i \in 1..Scale |-> IF i <= Len(frac) THEN frac[i] ELSE "0"]
        mag == DigitsValue(whole) * Unit + DigitsValue(fracS)
    IN  IF s # <<>> /\ Head(s) = "-" THEN -mag ELSE mag

\* pd.to_numeric(series, errors='coerce') on a column of strings: int64 when
\* every element is an integer literal, otherwise float64 with NaN for the
\* elements that do not parse.
to_numeric(texts) ==
    IF \A i \in 1..Len(texts) : IsIntLiteral(texts[i])
    THEN [i \in 1..Len(texts) |-> Int64(DecimalValue(texts[i]))]
    ELSE [i \in 1..Len(texts) |->
            IF IsDecimalLiteral(texts[i]) THEN Float(DecimalValue(texts[i])) ELSE NaN]

\* The parse of one time text.  The date grammar of pandas is abstracted: a
\* time text of the model is the decimal text of its instant, anything else
\* does not parse.
ParseTime(s) ==
    IF s # <<>> /\ AllDigits(s) THEN Timestamp(DigitsValue(s)) ELSE NaN

\* pd.to_datetime(series, errors='coerce'), element by element: a timestamp
\* stays, a string is parsed, anything unparseable becomes NaT.
to_datetime_cell(c) ==
    CASE c.k = "datetime" -> c
      [] c.k = "str" -> ParseTime(c.s)
      [] OTHER -> NaN

to_datetime(cells) == [i \in 1..Len(cells) |-> to_datetime_cell(cells[i])]

----------------------------------------------------------------------------
(* Names of the source: column titles, markers, sentinels *)

\* 交易时间
COL_TIME == <<"jiao", "yi", "shi", "jian">>

\* 交易分类
COL_CATEGORY == <<"jiao", "yi", "fen", "lei">>

\* 交易类型 (WeChat's title of the category column)
COL_TYPE == <<"jiao", "yi", "lei", "xing">>

\* 交易对方
COL_PARTY == <<"jiao", "yi", "dui", "fang">>

\* 商品说明
COL_ITEM == <<"shang", "pin", "shuo", "ming">>

\* 商品 (WeChat's title of the description column)
COL_GOODS == <<"shang", "pin">>

\* 收/支
COL_DIRECTION == <<"shou", "/", "zhi">>

\* 金额
COL_AMOUNT == <<"jin", "e">>

\* 金额(元) (WeChat's title of the amount column)
COL_AMOUNT_YUAN == <<"jin", "e", "(", "yuan", ")">>

\* 支付方式 (WeChat's title of the payment method column)
COL_PAY_METHOD == <<"zhi", "fu", "fang", "shi">>

\* 收/付款方式
COL_METHOD == <<"shou", "/", "fu", "kuan", "fang", "shi">>

\* 数据源
COL_SOURCE == <<"shu", "ju", "yuan">>

\* 年月 : the column prepare_data adds
COL_YEAR_MONTH == <<"nian", "yue">>

\* '微信支付'
SOURCE_WECHAT == <<"wei", "xin", "zhi", "fu">>

\* '支付宝'
SOURCE_ALIPAY == <<"zhi", "fu", "bao">>

\* '/' : the neutral sentinel of WeChat
NEUTRAL_WECHAT == <<"/">>

\* '不计收支' : the neutral sentinel of Alipay
NEUTRAL_ALIPAY == <<"bu", "ji", "shou", "zhi">>

\* header_keywords = ['交易时间', '交易分类', '商品说明']
header_keywords == {COL_TIME, COL_CATEGORY, COL_ITEM}

\* The default of find_header_row's max_rows_to_check.
max_rows_to_check == 30

\* pd.read_excel(file_path, skiprows=16)
skiprows == 16

EXT_CSV == <<".", "c", "s", "v">>

EXT_XLSX == <<".", "x", "l", "s", "x">>

\* '微信支付账单' : the marker of a WeChat file name
MARK_WECHAT == <<"wei", "xin", "zhi", "fu", "zhang", "dan">>

\* '支付宝' : the marker of an Alipay file name
MARK_ALIPAY == <<"zhi", "fu", "bao">>

----------------------------------------------------------------------------
(* Tables.  A DataFrame is a set of column names and a sequence of rows; a  *)
(* row maps each column to a cell.  Each row also carries where it was     *)
(* read from (file name and zero-based row index in the file): this is not *)
(* data of the program, it is kept to state where a record comes from.     *)

EmptyFrame == [columns |-> {}, rows |-> <<>>]

Column(df, c) == [i \in 1..Len(df.rows) |-> df.rows[i].cells[c]]

\* df[c] = values
SetColumn(df, c, values) ==
    [columns |-> df.columns \cup {c},
     rows |-> [i \in 1..Len(df.rows) |->
                 [df.rows[i] EXCEPT !.cells =
                     [x \in df.columns \cup {c} |->
                         IF x = c THEN values[i] ELSE df.rows[i].cells[x]]]]]

\* df[keep], keep a sequence of booleans: the rows kept, in their order.
RECURSIVE SelectRows(_, _)
SelectRows(rows, keep) ==
    IF rows = <<>> THEN <<>>
    ELSE (IF Head(keep) THEN <<Head(rows)>> ELSE <<>>)
            \o SelectRows(Tail(rows), Tail(keep))

Filter(df, keep) == [columns |-> df.columns, rows |-> SelectRows(df.rows, keep)]

\* dropna on the time column alone: the amount is not looked at.
dropna_time_only(df, subset) ==
    Filter(df, [i \in 1..Len(df.rows) |-> ~IsNull(df.rows[i].cells[COL_TIME])])

\* df.dropna(subset=subset, how='any'), the subset's columns being present.
dropna(df, subset) ==
    Filter(df, [i \in 1..Len(df.rows) |->
                   \A c \in subset : ~IsNull(df.rows[i].cells[c])])

----------------------------------------------------------------------------
(* Files.  A file on disk has a name, rows of cells, and says whether      *)
(* pandas can parse it with the reader its extension selects: "ok", "no"   *)
(* (the reader raises), or "peek" (its first rows parse, the whole file    *)
(* does not: the reader raises only when the whole table is read).         *)

\* pd.read_csv / pd.read_excel with header=h (for read_excel(skiprows=h) the
\* same: the first row not skipped is the header): the titles are the texts
\* of row h, the records are the rows after it.  No row left gives a frame
\* without columns.
ReadTable(file, h) ==
    IF h >= Len(file.rows) THEN EmptyFrame
    ELSE LET header == file.rows[h + 1]
             cols == {PyStr(header[j]) : j \in 1..Len(header)}
             at(n) == CHOOSE j \in 1..Len(header) : PyStr(header[j]) = n
         IN  [columns |-> cols,
              rows |-> [i \in 1..(Len(file.rows) - h - 1) |->
                          [cells |-> [n \in cols |-> file.rows[h + 1 + i][at(n)]],
                           file |-> file.name,
                           line |-> h + i]]]

\* ''.join(str(s) for s in row.values)
RECURSIVE row_str(_)
row_str(row) ==
    IF row = <<>> THEN <<>> ELSE PyStr(Head(row)) \o row_str(Tail(row))

NotFound == [found |-> FALSE, index |-> 0]

Found(i) == [found |-> TRUE, index |-> i]

\* ScanRows with any(...) in place of all(...): a row holding one keyword is
\* taken for the title row.
RECURSIVE ScanRowsAny(_, _, _)
ScanRowsAny(df_peek, keywords, i) ==
    IF i >= Len(df_peek) THEN NotFound
    ELSE IF \E keyword \in keywords : Contains(row_str(df_peek[i + 1]), keyword)
         THEN Found(i)
         ELSE ScanRowsAny(df_peek, keywords, i + 1)

\* The loop of find_header_row over df_peek, from row i on: the first row
\* whose text holds every keyword.
RECURSIVE ScanRows(_, _, _)
ScanRows(df_peek, keywords, i) ==
    IF i >= Len(df_peek) THEN NotFound
    ELSE IF \A keyword \in keywords : Contains(row_str(df_peek[i + 1]), keyword)
         THEN Found(i)
         ELSE ScanRows(df_peek, keywords, i + 1)

\* Peek without nrows: the whole file is scanned.
PeekWholeFile(file, max_rows) == file.rows

\* header=None, nrows=max_rows: the first max_rows rows, as raw data.
Peek(file, max_rows) ==
    SubSeq(file.rows, 1, IF Len(file.rows) < max_rows THEN Len(file.rows) ELSE max_rows)

find_header_row(file, keywords, max_rows) ==
    IF ~(EndsWith(file.name, EXT_CSV) \/ EndsWith(file.name, EXT_XLSX))
    THEN NotFound                       \* unsupported format
    ELSE IF file.parses = "no"
         THEN NotFound                  \* except Exception: return None
         ELSE ScanRows(Peek(file, max_rows), keywords, 0)

----------------------------------------------------------------------------
(* The adapters.  A call returns a DataFrame, returns None, or raises.     *)

ReturnFrame(df) == [kind |-> "DataFrame", df |-> df]

ReturnNone == [kind |-> "None", df |-> EmptyFrame]

Raise == [kind |-> "raise", df |-> EmptyFrame]

\* sample_data before create_sample_data has been called.
NoSample == [kind |-> "None", columns |-> {}, count |-> 0, records |-> {}]

\* wechat_columns, applied by df.rename(columns=wechat_columns)
wechat_columns(c) ==
    CASE c = COL_TYPE -> COL_CATEGORY
      [] c = COL_GOODS -> COL_ITEM
      [] c = COL_AMOUNT_YUAN -> COL_AMOUNT
      [] c = COL_PAY_METHOD -> COL_METHOD
      [] OTHER -> c

\* df.rename(columns=wechat_columns): each title that is a key of the mapping
\* is replaced.
rename(df) ==
    LET cols == {wechat_columns(c) : c \in df.columns}
        old(n) == CHOOSE c \in df.columns : wechat_columns(c) = n
    IN  [columns |-> cols,
         rows |-> [i \in 1..Len(df.rows) |->
                     [df.rows[i] EXCEPT !.cells =
                         [n \in cols |-> df.rows[i].cells[old(n)]]]]]

\* wechat_mask with str.contains('/') in place of the comparison.
wechat_mask_contains(label) == Contains(PyStr(label), NEUTRAL_WECHAT)

\* mask = df['收/支'].astype(str).str.strip() == '/'
wechat_mask(label) == Strip(PyStr(label)) = NEUTRAL_WECHAT

\* alipay_mask with == in place of str.contains.
alipay_mask_exact(label) == PyStr(label) = NEUTRAL_ALIPAY

\* mask = df['收/支'].astype(str).str.contains('不计收支', na=False)
alipay_mask(label) == Contains(PyStr(label), NEUTRAL_ALIPAY)

\* df['金额'].astype(str).str.replace(r'[^\d.-]', '', regex=True), then
\* pd.to_numeric(..., errors='coerce')
clean_amount(cells) ==
    to_numeric([i \in 1..Len(cells) |-> Sanitize(PyStr(cells[i]))])

\* Lines 65-72 of process_wechat_file: the two coercions, each under its
\* `if column in df.columns`.
wechat_coerce(df) ==
    LET df1 == IF COL_TIME \in df.columns
               THEN SetColumn(df, COL_TIME, to_datetime(Column(df, COL_TIME)))
               ELSE df
    IN  IF COL_AMOUNT \in df1.columns
        THEN SetColumn(df1, COL_AMOUNT, clean_amount(Column(df1, COL_AMOUNT)))
        ELSE df1

\* alipay_coerce without the str.replace: the amount texts are parsed as they
\* are.
alipay_coerce_unsanitized(df) ==
    LET df1 == IF COL_TIME \in df.columns
               THEN SetColumn(df, COL_TIME, to_datetime(Column(df, COL_TIME)))
               ELSE df
        cells == Column(df1, COL_AMOUNT)
    IN  IF COL_AMOUNT \in df1.columns
        THEN SetColumn(df1, COL_AMOUNT,
                       to_numeric([i \in 1..Len(cells) |-> PyStr(cells[i])]))
        ELSE df1

\* Lines 123-130 of process_alipay_file: the same two coercions.
alipay_coerce(df) ==
    LET df1 == IF COL_TIME \in df.columns
               THEN SetColumn(df, COL_TIME, to_datetime(Column(df, COL_TIME)))
               ELSE df
    IN  IF COL_AMOUNT \in df1.columns
        THEN SetColumn(df1, COL_AMOUNT, clean_amount(Column(df1, COL_AMOUNT)))
        ELSE df1

\* dropna(subset=['交易时间', '金额']) raises KeyError when a column is missing.
dropna_raises(df) == ~({COL_TIME, COL_AMOUNT} \subseteq df.columns)

\* wechat_filter with the label column replaced by its stripped text:
\* df['收/支'] = df['收/支'].astype(str).str.strip() before the comparison.
wechat_filter_in_place(df) ==
    IF COL_DIRECTION \in df.columns
    THEN LET stripped ==
                 SetColumn(df, COL_DIRECTION,
                           [i \in 1..Len(df.rows) |->
                               Str(Strip(PyStr(df.rows[i].cells[COL_DIRECTION])))])
         IN  Filter(stripped, [i \in 1..Len(df.rows) |->
                                  ~wechat_mask(df.rows[i].cells[COL_DIRECTION])])
    ELSE df

\* wechat_filter with df[mask] in place of df[~mask].
wechat_filter_inverted(df) ==
    IF COL_DIRECTION \in df.columns
    THEN Filter(df, [i \in 1..Len(df.rows) |->
                        wechat_mask(df.rows[i].cells[COL_DIRECTION])])
    ELSE df

\* Lines 51-63: the neutral rows of a WeChat table are deleted.
wechat_filter(df) ==
    IF COL_DIRECTION \in df.columns
    THEN Filter(df, [i \in 1..Len(df.rows) |->
                        ~wechat_mask(df.rows[i].cells[COL_DIRECTION])])
    ELSE df

\* Lines 109-121: the neutral rows of an Alipay table are deleted.
alipay_filter(df) ==
    IF COL_DIRECTION \in df.columns
    THEN Filter(df, [i \in 1..Len(df.rows) |->
                        ~alipay_mask(df.rows[i].cells[COL_DIRECTION])])
    ELSE df

\* Tag with the literal of process_wechat_file whatever the adapter.
TagWechat(df, source) ==
    SetColumn(df, COL_SOURCE, [i \in 1..Len(df.rows) |-> Str(SOURCE_WECHAT)])

\* df['数据源'] = source
Tag(df, source) ==
    SetColumn(df, COL_SOURCE, [i \in 1..Len(df.rows) |-> Str(source)])

\* process_wechat_file without lines 51-63: no record is taken out for its
\* label.
process_wechat_file_unfiltered(file) ==
    IF file.parses # "ok" THEN ReturnNone
    ELSE LET df == wechat_coerce(Tag(rename(ReadTable(file, skiprows)), SOURCE_WECHAT))
         IN  IF dropna_raises(df) THEN ReturnNone
             ELSE ReturnFrame(dropna(df, {COL_TIME, COL_AMOUNT}))

\* process_wechat_file with the dropna under `if` as the coercions are: when
\* a column of the subset is missing the table is returned as it is.
process_wechat_file_guarded(file) ==
    IF file.parses # "ok" THEN ReturnNone
    ELSE LET df == wechat_coerce(wechat_filter(
                       Tag(rename(ReadTable(file, skiprows)), SOURCE_WECHAT)))
         IN  IF dropna_raises(df) THEN ReturnFrame(df)
             ELSE ReturnFrame(dropna(df, {COL_TIME, COL_AMOUNT}))

\* process_wechat_file: everything is inside one try; any exception (the
\* file does not parse, a column of the dropna subset is missing) is caught
\* and None returned.
process_wechat_file(file) ==
    IF file.parses # "ok" THEN ReturnNone
    ELSE LET df == wechat_coerce(wechat_filter(
                       Tag(rename(ReadTable(file, skiprows)), SOURCE_WECHAT)))
         IN  IF dropna_raises(df) THEN ReturnNone
             ELSE ReturnFrame(dropna(df, {COL_TIME, COL_AMOUNT}))

\* process_alipay_file without the `if header_row_index is None` return: the
\* table is read with its first row as the titles.
process_alipay_file_unchecked(file) ==
    LET header_row_index == find_header_row(file, header_keywords, max_rows_to_check)
        header == IF header_row_index.found THEN header_row_index.index ELSE 0
    IN  IF file.parses # "ok" THEN ReturnNone
        ELSE LET df == alipay_coerce(alipay_filter(
                           Tag(ReadTable(file, header), SOURCE_ALIPAY)))
             IN  IF dropna_raises(df) THEN Raise
                 ELSE ReturnFrame(dropna(df, {COL_TIME, COL_AMOUNT}))

\* process_alipay_file with header=header_row_index + 1: the row after the
\* located one is taken for the titles.
process_alipay_file_next_row(file) ==
    LET header_row_index == find_header_row(file, header_keywords, max_rows_to_check)
    IN  IF ~header_row_index.found THEN ReturnNone
        ELSE IF file.parses # "ok" THEN ReturnNone
        ELSE LET df == alipay_coerce(alipay_filter(
                           Tag(ReadTable(file, header_row_index.index + 1),
                               SOURCE_ALIPAY)))
             IN  IF dropna_raises(df) THEN Raise
                 ELSE ReturnFrame(dropna(df, {COL_TIME, COL_AMOUNT}))

\* process_alipay_file: only the read of the table is inside a try; the
\* rest runs unprotected, so the KeyError of dropna leaves the function.
process_alipay_file(file) ==
    LET header_row_index == find_header_row(file, header_keywords, max_rows_to_check)
    IN  IF ~header_row_index.found THEN ReturnNone
        ELSE IF file.parses # "ok" THEN ReturnNone
        ELSE LET df == alipay_coerce(alipay_filter(
                           Tag(ReadTable(file, header_row_index.index), SOURCE_ALIPAY)))
             IN  IF dropna_raises(df) THEN Raise
                 ELSE ReturnFrame(dropna(df, {COL_TIME, COL_AMOUNT}))

----------------------------------------------------------------------------
(* The files the program is run on.  A file on disk is described by its    *)
(* name, whether it parses, the number of rows before its title row, the   *)
(* places among them of a row that holds only some of the keywords, its    *)
(* titles and its records; FileOf gives the rows pandas reads.             *)

\* '收入', '支出'
INCOME == <<"shou", "ru">>

EXPENSE == <<"zhi", "chu">>

\* The records files are made of: time, counterparty, direction label, amount.
RowOk2 == [time |-> Str(<<"2">>), party |-> Str(<<"a">>),
           dir |-> Str(INCOME), amount |-> Str(<<"8">>)]

RowOk1 == [time |-> Str(<<"1">>), party |-> NaN,
           dir |-> Str(EXPENSE), amount |-> Str(<<"Y", "1", ".", "5", "0">>)]

RowSlash == [time |-> Str(<<"2">>), party |-> Str(<<"a">>),
             dir |-> Str(<<"/">>), amount |-> Str(<<"5">>)]

RowNotCounted == [time |-> Str(<<"1">>), party |-> Str(<<"b">>),
                  dir |-> Str(NEUTRAL_ALIPAY), amount |-> Str(<<"7">>)]

RowBadAmount == [time |-> Str(<<"1">>), party |-> Str(<<"b">>),
                 dir |-> Str(EXPENSE), amount |-> Str(<<"a", "b">>)]

RowBadTime == [time |-> Str(<<"x">>), party |-> Str(<<"a">>),
               dir |-> Str(INCOME), amount |-> Str(<<"3">>)]

Records == {RowOk2, RowOk1, RowSlash, RowNotCounted, RowBadAmount, RowBadTime}

\* The titles of a WeChat export and of an Alipay export, and titles with
\* the amount column missing.
WechatTitles == <<COL_TIME, COL_TYPE, COL_PARTY, COL_DIRECTION, COL_AMOUNT_YUAN>>

WechatTitlesNoAmount == <<COL_TIME, COL_TYPE, COL_PARTY, COL_DIRECTION, COL_PAY_METHOD>>

AlipayTitles == <<COL_TIME, COL_CATEGORY, COL_PARTY, COL_ITEM, COL_DIRECTION, COL_AMOUNT>>

AlipayTitlesNoAmount ==
    <<COL_TIME, COL_CATEGORY, COL_PARTY, COL_ITEM, COL_DIRECTION, COL_AMOUNT_YUAN>>

\* Titles that lack one of the keywords (商品说明).
AlipayTitlesNoItem ==
    <<COL_TIME, COL_CATEGORY, COL_PARTY, COL_GOODS, COL_DIRECTION, COL_AMOUNT>>

\* The titles with the payment method as well: every key of wechat_columns,
\* and the Alipay titles under their canonical names.
WechatTitlesFull ==
    <<COL_TIME, COL_TYPE, COL_PARTY, COL_GOODS, COL_DIRECTION, COL_AMOUNT_YUAN,
      COL_PAY_METHOD>>

AlipayTitlesFull == AlipayTitles \o <<COL_METHOD>>

IsFullLayout(titles) == Len(titles) = Len(WechatTitlesFull)

IsAlipayLayout(titles) == Len(titles) = Len(AlipayTitles)

\* A row before the titles: a line of free text, the other cells empty.
FillerRow(width) == [j \in 1..width |-> IF j = 1 THEN Str(<<"-">>) ELSE NaN]

\* A row before the titles that holds two of the three keywords.
PartialRow(width) ==
    [j \in 1..width |-> IF j = 1 THEN Str(COL_TIME)
                        ELSE IF j = 2 THEN Str(COL_CATEGORY) ELSE NaN]

RecordCells(r, titles) ==
    IF IsFullLayout(titles)
    THEN <<r.time, Str(<<"c">>), r.party, Str(<<"i">>), r.dir, r.amount, Str(<<"m">>)>>
    ELSE IF IsAlipayLayout(titles)
    THEN <<r.time, Str(<<"c">>), r.party, Str(<<"i">>), r.dir, r.amount>>
    ELSE <<r.time, Str(<<"c">>), r.party, r.dir, r.amount>>

FileOf(d) ==
    [name |-> d.name,
     parses |-> d.parses,
     rows |-> [i \in 1..d.pre |->
                  IF (i - 1) \in d.partial THEN PartialRow(Len(d.titles))
                  ELSE FillerRow(Len(d.titles))]
              \o <<[j \in 1..Len(d.titles) |-> Str(d.titles[j])]>>
              \o [i \in 1..Len(d.data) |-> RecordCells(d.data[i], d.titles)]]

\* File names: two that match *微信支付账单*.xlsx, one that matches *支付宝*.csv,
\* one that matches *支付宝*.xlsx.
NameWechat1 == MARK_WECHAT \o <<"1">> \o EXT_XLSX

NameWechat2 == MARK_WECHAT \o <<"2">> \o EXT_XLSX

NameAlipayCsv == MARK_ALIPAY \o EXT_CSV

NameAlipayXlsx == MARK_ALIPAY \o EXT_XLSX

WechatNames == {NameWechat1, NameWechat2}

AlipayNames == {NameAlipayCsv, NameAlipayXlsx}

MaxFiles == 2

\* The records of a file of the pipeline's runs: one record, or any record
\* followed by a good one.
PipelineData ==
    {<<r>> : r \in Records} \cup {<<r, RowOk2>> : r \in Records}

\* Rows before the titles in an Alipay export of the pipeline's runs.
AlipayPreamble == 2

\* The contents a WeChat-named file may have: a well-formed export with any
\* records; an export whose titles are one row further down; one without
\* the amount column; one that is no spreadsheet.
WechatContents ==
    {[parses |-> "ok", pre |-> skiprows, partial |-> {},
      titles |-> WechatTitles, data |-> data] : data \in PipelineData}
    \cup {[parses |-> "ok", pre |-> skiprows + 1, partial |-> {},
           titles |-> WechatTitles, data |-> <<RowOk2>>],
          [parses |-> "ok", pre |-> skiprows, partial |-> {},
           titles |-> WechatTitlesNoAmount, data |-> <<RowOk2>>],
          [parses |-> "no", pre |-> skiprows, partial |-> {},
           titles |-> WechatTitles, data |-> <<RowOk2>>]}

\* The contents an Alipay-named file may have: likewise, the export without
\* titles being one whose title row lacks a keyword.
AlipayContents ==
    {[parses |-> "ok", pre |-> AlipayPreamble, partial |-> {},
      titles |-> AlipayTitles, data |-> data] : data \in PipelineData}
    \cup {[parses |-> "ok", pre |-> AlipayPreamble, partial |-> {},
           titles |-> AlipayTitlesNoItem, data |-> <<RowOk2>>],
          [parses |-> "ok", pre |-> AlipayPreamble, partial |-> {},
           titles |-> AlipayTitlesNoAmount, data |-> <<RowOk2>>],
          [parses |-> "no", pre |-> AlipayPreamble, partial |-> {},
           titles |-> AlipayTitles, data |-> <<RowOk2>>],
          [parses |-> "peek", pre |-> AlipayPreamble, partial |-> {},
           titles |-> AlipayTitles, data |-> <<RowOk2>>]}

Named(name, c) ==
    [name |-> name, parses |-> c.parses, pre |-> c.pre, partial |-> c.partial,
     titles |-> c.titles, data |-> c.data]

FilesOnDisk ==
    {Named(n, c) : n \in WechatNames, c \in WechatContents}
    \cup {Named(n, c) : n \in AlipayNames, c \in AlipayContents}

\* The working directories: at most n files, no two of one name.
RECURSIVE DirectoriesUpTo(_)
DirectoriesUpTo(n) ==
    IF n = 0 THEN {{}}
    ELSE LET smaller == DirectoriesUpTo(n - 1)
         IN  smaller \cup
             {x[1] \cup {x[2]} :
                 x \in {y \in smaller \X FilesOnDisk :
                           \A d \in y[1] : d.name # y[2].name}}

Directories == DirectoriesUpTo(MaxFiles)

----------------------------------------------------------------------------
(* find_and_process_all_files *)

VARIABLES
    directory,       \* the files of the working directory
    pc,              \* where find_and_process_all_files is
    wechat_files,    \* the WeChat files still to be processed, in glob's order
    alipay_files,    \* the Alipay files still to be processed, in glob's order
    all_dataframes,  \* the list all_dataframes
    combined_df,     \* what find_and_process_all_files returned
    calls,           \* the adapter calls made so far: file, adapter, header, result
    header_row_index, \* what the last call of find_header_row returned
    run,             \* the number of the run of find_and_process_all_files
    first_result,    \* what the first run returned, once a second run has begun
    passes,          \* a table, and what each pass of the cleaning steps made of it
    sample_data      \* what create_sample_data returned to the main program

vars == <<directory, pc, wechat_files, alipay_files, all_dataframes, combined_df, calls,
          header_row_index, run, first_result, passes, sample_data>>

\* What a run of find_and_process_all_files leaves alone.
outside == <<run, first_result, passes, sample_data>>

\* fnmatch of '*<marker>*<ext>'
Matches(name, marker, ext) ==
    /\ EndsWith(name, ext)
    /\ Contains(SubSeq(name, 1, Len(name) - Len(ext)), marker)

\* The orders in which a directory listing may return a set of files.
RECURSIVE Orderings(_)
Orderings(S) ==
    IF S = {} THEN {<<>>}
    ELSE UNION {{<<d>> \o rest : rest \in Orderings(S \ {d})} : d \in S}

\* glob.glob(os.path.join(current_dir, pattern)): the matching files, in the
\* order the directory listing returns them.
glob(marker, ext) ==
    Orderings({d \in directory : Matches(d.name, marker, ext)})

\* pd.concat(all_dataframes, ignore_index=True): the rows of the frames in
\* list order over the union of their columns, a cell NaN where a frame has
\* no such column.
RECURSIVE concat(_)
concat(frames) ==
    IF frames = <<>> THEN EmptyFrame
    ELSE LET rest == concat(Tail(frames))
             first == Head(frames)
             cols == first.columns \cup rest.columns
             widen(row, from) ==
                 [row EXCEPT !.cells =
                     [c \in cols |-> IF c \in from THEN row.cells[c] ELSE NaN]]
         IN  [columns |-> cols,
              rows |-> [i \in 1..Len(first.rows) |-> widen(first.rows[i], first.columns)]
                       \o [i \in 1..Len(rest.rows) |-> widen(rest.rows[i], rest.columns)]]

\* The orders sort_values('交易时间', ascending=False) may leave the rows in.
\* The sort is pandas' default kind, quicksort, which is not stable: among
\* the rows still to place, any of those with the greatest time may come
\* next.  S is the set of positions still to place.
RECURSIVE SortOutcomes(_, _)
SortOutcomes(rows, S) ==
    IF S = {} THEN {<<>>}
    ELSE LET first == {i \in S : \A j \in S :
                          rows[i].cells[COL_TIME].v >= rows[j].cells[COL_TIME].v}
         IN  UNION {{<<rows[i]>> \o rest : rest \in SortOutcomes(rows, S \ {i})} :
                       i \in first}

\* sort_values with ascending left at its default, True.
sort_values_ascending(df) ==
    {[columns |-> df.columns,
      rows |-> [i \in 1..Len(rows) |-> rows[Len(rows) + 1 - i]]] :
        rows \in SortOutcomes(df.rows, 1..Len(df.rows))}

sort_values(df) ==
    {[columns |-> df.columns, rows |-> rows] :
        rows \in SortOutcomes(df.rows, 1..Len(df.rows))}

Init ==
    /\ directory \in Directories
    /\ pc = "glob_wechat"
    /\ wechat_files = <<>>
    /\ alipay_files = <<>>
    /\ all_dataframes = <<>>
    /\ combined_df = ReturnNone
    /\ calls = <<>>
    /\ header_row_index = NotFound
    /\ run = 1
    /\ first_result = ReturnNone
    /\ passes = <<>>
    /\ sample_data = NoSample

\* wechat_files = glob.glob("*微信支付账单*.xlsx")
GlobWechat ==
    /\ pc = "glob_wechat"
    /\ wechat_files' \in glob(MARK_WECHAT, EXT_XLSX)
    /\ pc' = "for_wechat"
    /\ UNCHANGED <<directory, alipay_files, all_dataframes, combined_df, calls,
                   header_row_index, outside>>

\* One turn of `for file_path in wechat_files`.
ProcessWechat ==
    /\ pc = "for_wechat"
    /\ wechat_files # <<>>
    /\ LET file_path == Head(wechat_files)
           df == process_wechat_file(FileOf(file_path))
       IN  /\ calls' = Append(calls, [file |-> file_path.name, adapter |-> "wechat",
                                      header |-> NotFound, result |-> df])
           /\ all_dataframes' =
                IF df.kind = "DataFrame" /\ df.df.rows # <<>>
                THEN Append(all_dataframes, df.df) ELSE all_dataframes
    /\ wechat_files' = Tail(wechat_files)
    /\ UNCHANGED <<directory, pc, alipay_files, combined_df, header_row_index, outside>>

\* alipay_files = glob.glob("*支付宝*.csv"), extended by glob.glob("*支付宝*.xlsx")
GlobAlipay ==
    /\ pc = "for_wechat"
    /\ wechat_files = <<>>
    /\ \E csv \in glob(MARK_ALIPAY, EXT_CSV), xlsx \in glob(MARK_ALIPAY, EXT_XLSX) :
          alipay_files' = csv \o xlsx
    /\ pc' = "for_alipay"
    /\ UNCHANGED <<directory, wechat_files, all_dataframes, combined_df, calls,
                   header_row_index, outside>>

\* One turn of `for file_path in alipay_files`.  An exception that leaves
\* process_alipay_file leaves find_and_process_all_files too: nothing
\* catches it.
ProcessAlipay ==
    /\ pc = "for_alipay"
    /\ alipay_files # <<>>
    /\ LET file_path == Head(alipay_files)
           df == process_alipay_file(FileOf(file_path))
           found == find_header_row(FileOf(file_path), header_keywords,
                                    max_rows_to_check)
       IN  /\ header_row_index' = found
           /\ calls' = Append(calls, [file |-> file_path.name, adapter |-> "alipay",
                                      header |-> found, result |-> df])
           /\ all_dataframes' =
                IF df.kind = "DataFrame" /\ df.df.rows # <<>>
                THEN Append(all_dataframes, df.df) ELSE all_dataframes
           /\ pc' = IF df.kind = "raise" THEN "raised" ELSE pc
    /\ alipay_files' = Tail(alipay_files)
    /\ UNCHANGED <<directory, wechat_files, combined_df, outside>>

\* if not all_dataframes: return None
ReturnNoData ==
    /\ pc = "for_alipay"
    /\ alipay_files = <<>>
    /\ all_dataframes = <<>>
    /\ combined_df' = ReturnNone
    /\ pc' = "returned"
    /\ UNCHANGED <<directory, wechat_files, alipay_files, all_dataframes, calls,
                   header_row_index, outside>>

\* combined_df = pd.concat(...), sorted by time, returned.
Merge ==
    /\ pc = "for_alipay"
    /\ alipay_files = <<>>
    /\ all_dataframes # <<>>
    /\ \E sorted \in sort_values(concat(all_dataframes)) :
          combined_df' = ReturnFrame(sorted)
    /\ pc' = "returned"
    /\ UNCHANGED <<directory, wechat_files, alipay_files, all_dataframes, calls,
                   header_row_index, outside>>

Next ==
    \/ GlobWechat
    \/ ProcessWechat
    \/ GlobAlipay
    \/ ProcessAlipay
    \/ ReturnNoData
    \/ Merge

Spec == Init /\ [][Next]_vars

----------------------------------------------------------------------------
(* find_header_row on its own: one call on one file.                       *)

MaxPreamble == 35

NameAlipayTxt == MARK_ALIPAY \o <<".", "t", "x", "t">>

\* Titles with the keyword 交易时间 split over two adjacent cells.
AlipayTitlesSplit ==
    <<<<"jiao", "yi">>, <<"shi", "jian">>, COL_CATEGORY, COL_ITEM, COL_DIRECTION,
      COL_AMOUNT>>

\* The files find_header_row is tried on: any number of rows before the
\* titles, at most one of them holding part of the keywords.
LocateFiles ==
    {[name |-> n, parses |-> p, pre |-> pre, partial |-> part, titles |-> ti,
      data |-> <<RowOk2>>] :
        n \in {NameAlipayCsv, NameAlipayXlsx, NameAlipayTxt},
        p \in {"ok", "no"},
        pre \in 0..MaxPreamble,
        part \in {{}} \cup {{2}, {MaxPreamble - 1}},
        ti \in {AlipayTitles, AlipayTitlesNoItem, AlipayTitlesSplit}}

InitLocate ==
    /\ directory \in {{d} : d \in LocateFiles}
    /\ pc = "find_header_row"
    /\ wechat_files = <<>>
    /\ alipay_files = <<>>
    /\ all_dataframes = <<>>
    /\ combined_df = ReturnNone
    /\ calls = <<>>
    /\ header_row_index = NotFound
    /\ run = 1
    /\ first_result = ReturnNone
    /\ passes = <<>>
    /\ sample_data = NoSample

\* header_row_index = find_header_row(file_path, header_keywords)
FindHeaderRow ==
    /\ pc = "find_header_row"
    /\ \E file_path \in directory :
          header_row_index' =
              find_header_row(FileOf(file_path), header_keywords, max_rows_to_check)
    /\ pc' = "found_header_row"
    /\ UNCHANGED <<directory, wechat_files, alipay_files, all_dataframes, combined_df,
                   calls, outside>>

SpecLocate == InitLocate /\ [][FindHeaderRow]_vars

----------------------------------------------------------------------------
(* The program run twice on the same directory. *)

\* The program is started again: find_and_process_all_files begins anew on
\* the same files, what the first run returned being kept for comparison.
Rerun ==
    /\ pc = "returned"
    /\ run = 1
    /\ run' = 2
    /\ first_result' = combined_df
    /\ pc' = "glob_wechat"
    /\ wechat_files' = <<>>
    /\ alipay_files' = <<>>
    /\ all_dataframes' = <<>>
    /\ combined_df' = ReturnNone
    /\ calls' = <<>>
    /\ UNCHANGED <<directory, header_row_index, passes, sample_data>>

SpecRerun == Init /\ [][Next \/ Rerun]_vars

----------------------------------------------------------------------------
(* The cleaning steps on their own: a table with the canonical titles is   *)
(* cleaned as an adapter cleans it, and what comes out is cleaned again.   *)

MaxData == 2

MaxPasses == 2

\* The times and amounts a table to clean may hold: texts that parse and
\* texts that do not, cells that a spreadsheet already holds as a timestamp
\* or a number, empty cells.
TimeCells == {Str(<<"2">>), Str(<<"x">>), Timestamp(1), NaN}

AmountCells ==
    {Str(<<"8">>), Str(<<"Y", "1", ".", "5", "0">>), Str(<<"-", ".", "5">>),
     Str(<<"a", "b">>), Str(<<"0", ".", "0", "0", "0", "0", "1">>),
     Float(2 * Unit + Unit \div 2), NaN}

\* Sequences of (time, amount) of length at most n.
RECURSIVE DataUpTo(_)
DataUpTo(n) ==
    IF n = 0 THEN {<<>>}
    ELSE LET shorter == DataUpTo(n - 1)
         IN  shorter \cup {Append(s, <<tc, ac>>) :
                              s \in shorter, tc \in TimeCells, ac \in AmountCells}

AdaptedFrame(data) ==
    [columns |-> {COL_TIME, COL_AMOUNT},
     rows |-> [i \in 1..Len(data) |->
                 [cells |-> [c \in {COL_TIME, COL_AMOUNT} |->
                                IF c = COL_TIME THEN data[i][1] ELSE data[i][2]],
                  file |-> <<>>,
                  line |-> i]]]

InitNormalize ==
    /\ directory = {}
    /\ pc \in {"clean_wechat", "clean_alipay"}
    /\ wechat_files = <<>>
    /\ alipay_files = <<>>
    /\ all_dataframes = <<>>
    /\ combined_df = ReturnNone
    /\ calls = <<>>
    /\ header_row_index = NotFound
    /\ run = 1
    /\ first_result = ReturnNone
    /\ passes \in {<<AdaptedFrame(data)>> : data \in DataUpTo(MaxData)}
    /\ sample_data = NoSample

\* Lines 65-75 of process_wechat_file, on the last table.
CleanWechat ==
    /\ pc = "clean_wechat"
    /\ Len(passes) <= MaxPasses
    /\ passes' = Append(passes, dropna(wechat_coerce(passes[Len(passes)]),
                                       {COL_TIME, COL_AMOUNT}))
    /\ UNCHANGED <<directory, pc, wechat_files, alipay_files, all_dataframes,
                   combined_df, calls, header_row_index, run, first_result,
                   sample_data>>

\* Lines 123-133 of process_alipay_file, on the last table.
CleanAlipay ==
    /\ pc = "clean_alipay"
    /\ Len(passes) <= MaxPasses
    /\ passes' = Append(passes, dropna(alipay_coerce(passes[Len(passes)]),
                                       {COL_TIME, COL_AMOUNT}))
    /\ UNCHANGED <<directory, pc, wechat_files, alipay_files, all_dataframes,
                   combined_df, calls, header_row_index, run, first_result,
                   sample_data>>

SpecNormalize == InitNormalize /\ [][CleanWechat \/ CleanAlipay]_vars

----------------------------------------------------------------------------
(* The main program: what it does with the value returned by               *)
(* find_and_process_all_files.                                             *)

\* for i in range(200)
SampleSize == 200

\* The keys of the dicts create_sample_data appends.
SampleColumns ==
    {COL_TIME, COL_CATEGORY, COL_ITEM, COL_DIRECTION, COL_AMOUNT, COL_METHOD}

\* random.randint(0, 365), random.randint(3000, 15000), random.randint(50, 2000):
\* the least and the greatest value of each draw.
RandomDays == {0, 365}

IncomeAmounts == {3000, 15000}

ExpenseAmounts == {50, 2000}

\* The dict of one turn of the loop, the draws being given; the texts drawn
\* from the fixed lists of categories and payment methods are one text each.
SampleRecord(random_days, is_income, drawn) ==
    [c \in SampleColumns |->
        CASE c = COL_TIME -> Timestamp(random_days)
          [] c = COL_DIRECTION -> Str(IF is_income THEN <<"shou", "ru">>
                                                   ELSE <<"zhi", "chu">>)
          [] c = COL_AMOUNT -> PyInt(IF is_income THEN drawn ELSE -drawn)
          [] OTHER -> Str(<<"c">>)]

\* What one turn of the loop may append.
SampleDraws ==
    {SampleRecord(d, TRUE, a) : d \in RandomDays, a \in IncomeAmounts}
    \cup {SampleRecord(d, FALSE, a) : d \in RandomDays, a \in ExpenseAmounts}

\* The list `data` after i turns of the loop, each turn appending one dict.
\* A list is held as its length and the set of the dicts in it: their order
\* and their multiplicities are left out.  The turns are taken half by half:
\* what i turns append is what i \div 2 turns append, twice over, and one
\* dict more when i is odd.
RECURSIVE SampleLoop(_)
SampleLoop(i) ==
    IF i = 0 THEN {[count |-> 0, records |-> {}]}
    ELSE LET half == SampleLoop(i \div 2)
             twice == {[count |-> x.count + y.count,
                        records |-> x.records \cup y.records] :
                          x \in half, y \in half}
         IN  IF i % 2 = 0 THEN twice
             ELSE {[count |-> data.count + 1, records |-> data.records \cup {r}] :
                      data \in twice, r \in SampleDraws}

\* create_sample_data(): the frames it may return.
create_sample_data ==
    {[kind |-> "DataFrame", columns |-> SampleColumns,
      count |-> data.count, records |-> data.records] :
         data \in SampleLoop(SampleSize)}

\* Series.dt.to_period('M'), a month of the model being thirty days.
to_period(c) == IF c.k = "datetime" THEN Period(c.v \div 30) ELSE NaN

\* ChartVisualizer.prepare_data on self.data, which is the object the caller
\* passed: the time column is assigned anew and the column 年月 is added, in
\* place.  (income_data and expense_data are views kept by the visualizer.)
prepare_data(df) ==
    IF df.rows = <<>> THEN df
    ELSE IF COL_TIME \in df.columns
         THEN LET df1 == SetColumn(df, COL_TIME, to_datetime(Column(df, COL_TIME)))
              IN  SetColumn(df1, COL_YEAR_MONTH,
                            [i \in 1..Len(df1.rows) |->
                                to_period(df1.rows[i].cells[COL_TIME])])
         ELSE df

\* prepare_data on a frame of create_sample_data.
prepare_sample(sample) ==
    IF sample.count = 0 THEN sample
    ELSE [sample EXCEPT
             !.columns = sample.columns \cup {COL_YEAR_MONTH},
             !.records =
                 {[c \in sample.columns \cup {COL_YEAR_MONTH} |->
                      IF c = COL_YEAR_MONTH THEN to_period(r[COL_TIME])
                      ELSE IF c = COL_TIME THEN to_datetime_cell(r[COL_TIME])
                      ELSE r[c]] : r \in sample.records}]

\* The first n distinct cells of a sequence, as Series.unique()[:n] gives them.
RECURSIVE FirstUnique(_, _, _)
FirstUnique(cells, seen, n) ==
    IF cells = <<>> \/ Cardinality(seen) = n THEN seen
    ELSE FirstUnique(Tail(cells), seen \cup {Head(cells)}, n)

\* export_to_pdf raises: a column the plots index is missing ('收/支' in
\* _plot_income_expense_comparison; '交易对方' in the agg of
\* _create_combined_detail_table once a record has a non-zero amount), or
\* ', '.join is given the first three distinct counterparties of the
\* expenses or of the incomes and one of them is no str.
export_raises(columns, records) ==
    \/ COL_DIRECTION \notin columns
    \/ \E positive \in BOOLEAN :
          LET part == SelectSeq(records,
                          LAMBDA r : IF positive THEN r[COL_AMOUNT].v > 0
                                     ELSE r[COL_AMOUNT].v < 0)
          IN  /\ part # <<>>
              /\ \/ COL_PARTY \notin columns
                 \/ \E c \in FirstUnique([i \in 1..Len(part) |-> part[i][COL_PARTY]],
                                         {}, 3) : c.k # "str"

\* export_to_pdf raises on a frame of create_sample_data: the same, the
\* frame having no column of counterparties to join.
export_sample_raises(sample) ==
    \/ COL_DIRECTION \notin sample.columns
    \/ /\ \E r \in sample.records : r[COL_AMOUNT].v # 0
       /\ COL_PARTY \notin sample.columns

\* The records of a table.
CellsOf(df) == [i \in 1..Len(df.rows) |-> df.rows[i].cells]

HasData(result) == result.kind = "DataFrame" /\ result.df.rows # <<>>

\* visualizer = ChartVisualizer(combined_data), under
\* `if combined_data is not None and not combined_data.empty`
NewVisualizer ==
    /\ pc = "returned"
    /\ HasData(combined_df)
    /\ combined_df' = ReturnFrame(prepare_data(combined_df.df))
    /\ pc' = "visualizer"
    /\ UNCHANGED <<directory, wechat_files, alipay_files, all_dataframes, calls,
                   header_row_index, outside>>

\* sample_data = create_sample_data(), in the else branch.
CreateSampleData ==
    /\ pc = "returned"
    /\ ~HasData(combined_df)
    /\ sample_data' \in create_sample_data
    /\ pc' = "sample_data"
    /\ UNCHANGED <<directory, wechat_files, alipay_files, all_dataframes, combined_df,
                   calls, header_row_index, run, first_result, passes>>

\* visualizer = ChartVisualizer(sample_data)
NewSampleVisualizer ==
    /\ pc = "sample_data"
    /\ sample_data' = prepare_sample(sample_data)
    /\ pc' = "sample_visualizer"
    /\ UNCHANGED <<directory, wechat_files, alipay_files, all_dataframes, combined_df,
                   calls, header_row_index, run, first_result, passes>>

\* pdf_filename = visualizer.export_to_pdf(), on the merged data.  The one
\* assignment it makes to self.data is the time column parsed anew.
ExportToPdf ==
    /\ pc = "visualizer"
    /\ LET df == combined_df.df
           df1 == IF COL_TIME \in df.columns
                  THEN SetColumn(df, COL_TIME, to_datetime(Column(df, COL_TIME)))
                  ELSE df
       IN  IF export_raises(df.columns, CellsOf(df))
           THEN pc' = "export_raised" /\ UNCHANGED combined_df
           ELSE pc' = "exported" /\ combined_df' = ReturnFrame(df1)
    /\ UNCHANGED <<directory, wechat_files, alipay_files, all_dataframes, calls,
                   header_row_index, outside>>

\* pdf_filename = visualizer.export_to_pdf(), on the sample data.
ExportSampleToPdf ==
    /\ pc = "sample_visualizer"
    /\ pc' = IF export_sample_raises(sample_data) THEN "export_raised" ELSE "exported"
    /\ UNCHANGED <<directory, wechat_files, alipay_files, all_dataframes, combined_df,
                   calls, header_row_index, outside>>

\* A WeChat file and an Alipay file side by side, each a good one, one that
\* yields no record, or one that fails.
MixedDirectories ==
    {{Named(NameWechat1, w), Named(NameAlipayCsv, a)} :
        w \in {c \in WechatContents : c.data \in {<<RowOk2>>, <<RowSlash>>}},
        a \in {c \in AlipayContents : c.data \in {<<RowOk2>>, <<RowNotCounted>>}}}

MainDirectories == DirectoriesUpTo(1) \cup MixedDirectories

InitMain ==
    /\ directory \in MainDirectories
    /\ pc = "glob_wechat"
    /\ wechat_files = <<>>
    /\ alipay_files = <<>>
    /\ all_dataframes = <<>>
    /\ combined_df = ReturnNone
    /\ calls = <<>>
    /\ header_row_index = NotFound
    /\ run = 1
    /\ first_result = ReturnNone
    /\ passes = <<>>
    /\ sample_data = NoSample

NextMain ==
    \/ Next
    \/ NewVisualizer
    \/ CreateSampleData
    \/ NewSampleVisualizer
    \/ ExportToPdf
    \/ ExportSampleToPdf

SpecMain == InitMain /\ [][NextMain]_vars

----------------------------------------------------------------------------
(* The adapters on their own: one file in the directory, with records of   *)
(* every kind, each adapter called on the files its patterns match.        *)

\* Direction labels that come near a sentinel: '/' between spaces, '/' inside
\* a longer text, '不计收支' inside a longer text, an empty cell.
RowSpacedSlash == [time |-> Str(<<"2">>), party |-> Str(<<"a">>),
                   dir |-> Str(<<" ", "/", " ">>), amount |-> Str(<<"5">>)]

RowSlashInside == [time |-> Str(<<"1">>), party |-> Str(<<"b">>),
                   dir |-> Str(<<"a", "/", "b">>), amount |-> Str(<<"6">>)]

RowNotCountedInside ==
    [time |-> Str(<<"2">>), party |-> Str(<<"a">>),
     dir |-> Str(<<"x">> \o NEUTRAL_ALIPAY \o <<"y">>), amount |-> Str(<<"7">>)]

RowNullLabel == [time |-> Str(<<"1">>), party |-> Str(<<"b">>),
                 dir |-> NaN, amount |-> Str(<<"4">>)]

\* Amounts: a negative one, one with two points, one with '-' at the end, an
\* empty cell.
RowNegative == [time |-> Str(<<"2">>), party |-> Str(<<"a">>),
                dir |-> Str(EXPENSE), amount |-> Str(<<"-", "2", ".", "5">>)]

RowTwoPoints == [time |-> Str(<<"1">>), party |-> Str(<<"b">>),
                 dir |-> Str(EXPENSE), amount |-> Str(<<"1", ".", "2", ".", "3">>)]

RowMinusLast == [time |-> Str(<<"2">>), party |-> Str(<<"a">>),
                 dir |-> Str(EXPENSE), amount |-> Str(<<"Y", "5", "-">>)]

RowNoAmount == [time |-> Str(<<"1">>), party |-> NaN,
                dir |-> Str(INCOME), amount |-> NaN]

AdapterRecords ==
    Records \cup {RowSpacedSlash, RowSlashInside, RowNotCountedInside, RowNullLabel,
                  RowNegative, RowTwoPoints, RowMinusLast, RowNoAmount}

\* Sequences of records of length at most n.
RECURSIVE RecordsUpTo(_)
RecordsUpTo(n) ==
    IF n = 0 THEN {<<>>}
    ELSE LET shorter == RecordsUpTo(n - 1)
         IN  shorter \cup {Append(s, r) : s \in shorter, r \in AdapterRecords}

\* Twenty records: three with the label '/', two whose amount does not
\* parse, fifteen good ones, some of them without a counterparty.
TwentyRecords ==
    [i \in 1..20 |->
        IF i \in {3, 9, 14} THEN RowSlash
        ELSE IF i \in {5, 17} THEN RowBadAmount
        ELSE IF i % 2 = 0 THEN RowOk2 ELSE RowOk1]

\* The greatest place of the title row in an Alipay export.
MaxHeader == 3

\* WeChat files: well-formed ones with any records, and the scenario of
\* twenty records; ones whose titles are a row early or a row late, one
\* without the amount column, one that is no spreadsheet.
AdapterWechatContents ==
    {[parses |-> "ok", pre |-> skiprows, partial |-> {},
      titles |-> WechatTitles, data |-> data] :
         data \in RecordsUpTo(MaxData) \cup {TwentyRecords}}
    \cup {[parses |-> "ok", pre |-> pre, partial |-> {},
           titles |-> WechatTitles, data |-> <<RowOk1, RowOk2>>] :
              pre \in {skiprows - 1, skiprows + 1}}
    \cup {c \in WechatContents : c.titles # WechatTitles \/ c.parses # "ok"}

\* Alipay files: well-formed ones with any records; ones with the titles at
\* any place up to MaxHeader, a row with two of the keywords before them or
\* not; the flawed ones of the pipeline's runs.
AdapterAlipayContents ==
    {[parses |-> "ok", pre |-> AlipayPreamble, partial |-> {},
      titles |-> AlipayTitles, data |-> data] : data \in RecordsUpTo(MaxData)}
    \cup {[parses |-> "ok", pre |-> pre, partial |-> part,
           titles |-> AlipayTitles, data |-> <<r, RowOk2>>] :
              pre \in 0..MaxHeader, part \in {{}, {0}}, r \in {RowOk1, RowBadTime}}
    \cup {c \in AlipayContents : c.titles # AlipayTitles \/ c.parses # "ok"}

\* Three records of which the one in the middle is dropped: by a filter, or
\* for its amount or its time.
DroppedBetween ==
    {<<RowOk1, r, RowOk2>> :
        r \in {RowSlash, RowNotCounted, RowBadAmount, RowBadTime, RowOk2}}

\* Exports with every column, the payment method included.
FullContents(titles, pre) ==
    {[parses |-> "ok", pre |-> pre, partial |-> {}, titles |-> titles,
      data |-> data] : data \in RecordsUpTo(1) \cup DroppedBetween}

AdapterFiles ==
    {Named(NameWechat1, c) : c \in AdapterWechatContents}
    \cup {Named(n, c) : n \in AlipayNames, c \in AdapterAlipayContents}
    \cup {Named(NameWechat1, c) : c \in FullContents(WechatTitlesFull, skiprows)}
    \cup {Named(NameAlipayXlsx, c) : c \in FullContents(AlipayTitlesFull, AlipayPreamble)}

InitAdapter ==
    /\ directory \in {{d} : d \in AdapterFiles}
    /\ pc = "glob_wechat"
    /\ wechat_files = <<>>
    /\ alipay_files = <<>>
    /\ all_dataframes = <<>>
    /\ combined_df = ReturnNone
    /\ calls = <<>>
    /\ header_row_index = NotFound
    /\ run = 1
    /\ first_result = ReturnNone
    /\ passes = <<>>
    /\ sample_data = NoSample

\* The discovery and the two loops of find_and_process_all_files.
NextAdapter ==
    \/ GlobWechat
    \/ ProcessWechat
    \/ GlobAlipay
    \/ ProcessAlipay

SpecAdapter == InitAdapter /\ [][NextAdapter]_vars

----------------------------------------------------------------------------
(* One file given to process_transaction_file.  A file on disk is stored   *)
(* in an encoding: UTF-8 text, GBK text, or a spreadsheet; whether a       *)
(* reader parses it depends on the encoding it expects.                    *)

\* reader with '.xlsx' read as delimited text too.
reader_csv_only(file_path) ==
    IF EndsWith(file_path, EXT_CSV) \/ EndsWith(file_path, EXT_XLSX)
    THEN "read_csv" ELSE "none"

\* The reader find_header_row and process_alipay_file choose for a path:
\* pd.read_csv(..., encoding='utf-8') for '.csv', pd.read_excel for '.xlsx'.
reader(file_path) ==
    IF EndsWith(file_path, EXT_CSV) THEN "read_csv"
    ELSE IF EndsWith(file_path, EXT_XLSX) THEN "read_excel"
    ELSE "none"

\* The reader does not raise on a file stored in this encoding: read_csv
\* decodes UTF-8 (the titles, being Chinese, are no valid UTF-8 when stored
\* as GBK, and a spreadsheet is a zip archive); read_excel opens a
\* spreadsheet only.
Decodes(r, encoding) ==
    \/ r = "read_csv" /\ encoding = "utf8"
    \/ r = "read_excel" /\ encoding = "xlsx"

\* The file as the given reader finds it.
Stored(d, r) ==
    [FileOf(d) EXCEPT !.parses = IF Decodes(r, d.encoding) THEN d.parses ELSE "no"]

\* process_transaction_file: process_wechat_file (which reads with
\* pd.read_excel whatever the name) when the path holds '微信支付账单',
\* process_alipay_file otherwise.
process_transaction_file(d) ==
    IF Contains(d.name, MARK_WECHAT)
    THEN process_wechat_file(Stored(d, "read_excel"))
    ELSE process_alipay_file(Stored(d, reader(d.name)))

\* Files of every name and encoding, whole or corrupted, with at most one
\* record.
EncodedFiles ==
    {[name |-> n, encoding |-> enc, parses |-> p, pre |-> AlipayPreamble,
      partial |-> {}, titles |-> AlipayTitles, data |-> data] :
        n \in {NameAlipayCsv, NameAlipayXlsx, NameAlipayTxt},
        enc \in {"utf8", "gbk", "xlsx"}, p \in {"ok", "no"},
        data \in RecordsUpTo(1)}
    \cup {[name |-> NameWechat1, encoding |-> enc, parses |-> p, pre |-> skiprows,
           partial |-> {}, titles |-> WechatTitles, data |-> data] :
             enc \in {"utf8", "gbk", "xlsx"}, p \in {"ok", "no"},
             data \in RecordsUpTo(1)}

InitFile ==
    /\ directory \in {{d} : d \in EncodedFiles}
    /\ pc = "process_transaction_file"
    /\ wechat_files = <<>>
    /\ alipay_files = <<>>
    /\ all_dataframes = <<>>
    /\ combined_df = ReturnNone
    /\ calls = <<>>
    /\ header_row_index = NotFound
    /\ run = 1
    /\ first_result = ReturnNone
    /\ passes = <<>>
    /\ sample_data = NoSample

\* df = process_transaction_file(file_path)
ProcessTransactionFile ==
    /\ pc = "process_transaction_file"
    /\ \E d \in directory :
          LET df == process_transaction_file(d)
              wechat == Contains(d.name, MARK_WECHAT)
              found == IF wechat THEN NotFound
                       ELSE find_header_row(Stored(d, reader(d.name)), header_keywords,
                                            max_rows_to_check)
          IN  /\ header_row_index' = found
              /\ calls' = Append(calls, [file |-> d.name,
                                         adapter |-> IF wechat THEN "wechat" ELSE "alipay",
                                         header |-> found, result |-> df])
              /\ pc' = IF df.kind = "raise" THEN "raised" ELSE "processed"
    /\ UNCHANGED <<directory, wechat_files, alipay_files, all_dataframes, combined_df,
                   outside>>

SpecFile == InitFile /\ [][ProcessTransactionFile]_vars

----------------------------------------------------------------------------
(* The discovery of files: directories with names that hold one marker,     *)
(* both markers or a marker with an extension no pattern ends in.           *)

\* '微信支付账单支付宝.xlsx': matched by '*微信支付账单*.xlsx' and by '*支付宝*.xlsx'.
NameBoth == MARK_WECHAT \o MARK_ALIPAY \o EXT_XLSX

\* '微信支付账单.csv': no pattern matches it.
NameWechatCsv == MARK_WECHAT \o EXT_CSV

DiscoverNames == {NameBoth, NameWechat1, NameAlipayCsv, NameAlipayTxt, NameWechatCsv}

\* Exports of either layout with the titles on the seventeenth row, where
\* process_wechat_file expects them and find_header_row finds them.
DiscoverContents ==
    {[parses |-> "ok", pre |-> skiprows, partial |-> {}, titles |-> titles,
      data |-> data] :
        titles \in {WechatTitles, AlipayTitles},
        data \in {<<RowOk2>>, <<RowOk1, RowOk2>>, <<RowSlash>>}}

DiscoverFiles == {Named(n, c) : n \in DiscoverNames, c \in DiscoverContents}

\* No file, one file, or two files of different names.
DiscoverDirectories ==
    {{}} \cup {{x[1], x[2]} :
                 x \in {y \in DiscoverFiles \X DiscoverFiles :
                           y[1].name # y[2].name \/ y[1] = y[2]}}

InitDiscover ==
    /\ directory \in DiscoverDirectories
    /\ pc = "glob_wechat"
    /\ wechat_files = <<>>
    /\ alipay_files = <<>>
    /\ all_dataframes = <<>>
    /\ combined_df = ReturnNone
    /\ calls = <<>>
    /\ header_row_index = NotFound
    /\ run = 1
    /\ first_result = ReturnNone
    /\ passes = <<>>
    /\ sample_data = NoSample

SpecDiscover == InitDiscover /\ [][Next]_vars

----------------------------------------------------------------------------
(* Properties of find_header_row *)

\* Row i of the file holds every keyword in the concatenation of its cells.
HoldsAllKeywords(file, i) ==
    \A keyword \in header_keywords : Contains(row_str(file.rows[i + 1]), keyword)

\* The reader selected by the extension reads the first rows of the file.
CanPeek(file) ==
    /\ EndsWith(file.name, EXT_CSV) \/ EndsWith(file.name, EXT_XLSX)
    /\ file.parses # "no"

\* The row indices find_header_row scans by default.
Window(file) == {i \in 0..(max_rows_to_check - 1) : i < Len(file.rows)}

\* C1: on a file it can read, find_header_row returns the smallest index of
\* the scanned window whose row holds every keyword, and not-found when the
\* window has no such row; a row holding only some keywords is never returned.
C1_FirstFullRow ==
    pc = "found_header_row" =>
        \A d \in directory :
            LET file == FileOf(d)
            IN  CanPeek(file) =>
                    IF header_row_index.found
                    THEN /\ header_row_index.index \in Window(file)
                         /\ HoldsAllKeywords(file, header_row_index.index)
                         /\ \A j \in Window(file) :
                               j < header_row_index.index => ~HoldsAllKeywords(file, j)
                    ELSE \A j \in Window(file) : ~HoldsAllKeywords(file, j)

\* Keywords partially at row 2 and fully at row 5: 5 is returned.
C1_Witness ==
    /\ pc = "found_header_row"
    /\ \E d \in directory :
          /\ d.partial = {2} /\ d.pre = 5 /\ d.titles = AlipayTitles
          /\ \E keyword \in header_keywords :
                Contains(row_str(FileOf(d).rows[3]), keyword)
    /\ header_row_index = Found(5)

\* C2: find_header_row never returns an index of max_rows_to_check (30) or
\* more; when no row among the first 30 holds every keyword it reports
\* not-found, whatever the later rows hold.
C2_WindowBound ==
    pc = "found_header_row" =>
        /\ header_row_index.found => header_row_index.index < max_rows_to_check
        /\ \A d \in directory :
              (\A j \in Window(FileOf(d)) : ~HoldsAllKeywords(FileOf(d), j))
                  => ~header_row_index.found

\* The keywords first co-occur at row 35: not found.
C2_Witness ==
    /\ pc = "found_header_row"
    /\ \E d \in directory :
          /\ d.pre = 35 /\ CanPeek(FileOf(d))
          /\ HoldsAllKeywords(FileOf(d), 35)
    /\ ~header_row_index.found

----------------------------------------------------------------------------
(* Properties of the adapters and of the merge *)

\* The record of the file that an output row was read from.
SourceRecord(row) ==
    LET d == CHOOSE d \in directory : d.name = row.file
    IN  d.data[row.line - d.pre]

\* The raw time of a record parses; its raw amount, sanitized, parses.
TimeParses(r) == ~IsNull(to_datetime_cell(r.time))

AmountParses(r) == IsDecimalLiteral(Sanitize(PyStr(r.amount)))

\* A table all of whose rows have a time and a numeric amount, and come from
\* records whose time and amount both parse.
NoNullRecord(df) ==
    /\ {COL_TIME, COL_AMOUNT} \subseteq df.columns
    /\ \A i \in 1..Len(df.rows) :
          /\ df.rows[i].cells[COL_TIME].k = "datetime"
          /\ IsNumeric(df.rows[i].cells[COL_AMOUNT])
          /\ TimeParses(SourceRecord(df.rows[i]))
          /\ AmountParses(SourceRecord(df.rows[i]))

Returned == pc = "returned" /\ combined_df.kind = "DataFrame"

\* The rows of the merged dataset that were read from the file of this name.
RowsFrom(name) ==
    {i \in 1..Len(combined_df.df.rows) : combined_df.df.rows[i].file = name}

\* C3: every record output by process_wechat_file, by process_alipay_file
\* and by find_and_process_all_files has a non-null time and a non-null
\* numeric amount; a record whose time or amount does not parse is in no output.
C3_NullRejection ==
    /\ \A i \in 1..Len(calls) :
          calls[i].result.kind = "DataFrame" => NoNullRecord(calls[i].result.df)
    /\ Returned => NoNullRecord(combined_df.df)

\* A file with a record of unparseable amount and a file with a record of
\* unparseable time, each followed by a good record: only the good ones are merged.
C3_Witness ==
    /\ Returned
    /\ \E d1, d2 \in directory :
          /\ d1.titles = WechatTitles /\ d1.data = <<RowBadAmount, RowOk2>>
          /\ d2.titles = AlipayTitles /\ d2.data = <<RowBadTime, RowOk2>>
          /\ Cardinality(RowsFrom(d1.name)) = 1
          /\ Cardinality(RowsFrom(d2.name)) = 1

\* The raw direction label of the record matches the neutral sentinel of the
\* source the record comes from: '/' exactly for WeChat, '不计收支' as a
\* substring for Alipay.
MatchesNeutral(row) ==
    LET label == PyStr(SourceRecord(row).dir)
    IN  IF row.cells[COL_SOURCE] = Str(SOURCE_WECHAT)
        THEN label = NEUTRAL_WECHAT
        ELSE Contains(label, NEUTRAL_ALIPAY)

TimeAt(i) == combined_df.df.rows[i].cells[COL_TIME].v

\* C6: the merged dataset is ordered by time, most recent first, across all
\* files and both sources (strictly so where the times differ).
C6_Descending ==
    Returned => \A i, j \in 1..Len(combined_df.df.rows) :
                    i < j => TimeAt(i) >= TimeAt(j)

\* Two files were merged and the sort moved a record: the concatenation was
\* not in descending order.
C6_Witness ==
    /\ Returned
    /\ Len(all_dataframes) = 2
    /\ \E i, j \in 1..Len(combined_df.df.rows) :
          /\ i < j /\ TimeAt(i) > TimeAt(j)
          /\ combined_df.df.rows[i].file # combined_df.df.rows[j].file
    /\ combined_df.df.rows # concat(all_dataframes).rows

\* The place of a merged row in the concatenation of all_dataframes.
ConcatPlace(row) ==
    CHOOSE k \in 1..Len(concat(all_dataframes).rows) :
        /\ concat(all_dataframes).rows[k].file = row.file
        /\ concat(all_dataframes).rows[k].line = row.line

\* C7: records of equal time are in the merged dataset in the order of the
\* concatenation (the sort is stable).
C7_StableTies ==
    Returned => \A i, j \in 1..Len(combined_df.df.rows) :
                    (i < j /\ TimeAt(i) = TimeAt(j))
                        => ConcatPlace(combined_df.df.rows[i])
                               < ConcatPlace(combined_df.df.rows[j])

\* The file's name matches one of the three patterns.
IsDiscovered(d) ==
    \/ Matches(d.name, MARK_WECHAT, EXT_XLSX)
    \/ Matches(d.name, MARK_ALIPAY, EXT_CSV)
    \/ Matches(d.name, MARK_ALIPAY, EXT_XLSX)

\* C9: no failure of a file is raised out of find_and_process_all_files, and
\* when it returns, every file has been processed and the records of every
\* file adapted with success are in the merged dataset.
C9_ErrorIsolation ==
    /\ pc # "raised"
    /\ pc = "returned" =>
          /\ \A d \in directory :
                IsDiscovered(d) => \E i \in 1..Len(calls) : calls[i].file = d.name
          /\ \A i \in 1..Len(calls) :
                calls[i].result.kind = "DataFrame" =>
                    Cardinality(RowsFrom(calls[i].file)) = Len(calls[i].result.df.rows)

\* The calls of process_alipay_file in which find_header_row found no titles.
NotFoundCalls ==
    {i \in 1..Len(calls) : calls[i].adapter = "alipay" /\ ~calls[i].header.found}

\* C10: when find_header_row reports not-found for an Alipay file,
\* process_alipay_file returns None for it, no record of the file reaches
\* all_dataframes or the merged dataset, and the run goes on: the call does
\* not raise, and when the function returns every file has been processed.
C10_NotFoundSkipped ==
    /\ \A i \in NotFoundCalls :
          /\ calls[i].result = ReturnNone
          /\ \A k \in 1..Len(all_dataframes) :
                \A r \in 1..Len(all_dataframes[k].rows) :
                    all_dataframes[k].rows[r].file # calls[i].file
          /\ Returned => RowsFrom(calls[i].file) = {}
          /\ i = Len(calls) => pc \in {"for_alipay", "returned"}
    /\ (pc = "returned" /\ NotFoundCalls # {}) =>
          \A d \in directory :
              IsDiscovered(d) => \E i \in 1..Len(calls) : calls[i].file = d.name

\* The first Alipay file has no title row, the second one is read after it
\* and its records are merged.
C10_Witness ==
    /\ Returned
    /\ Len(calls) = 2
    /\ NotFoundCalls = {1}
    /\ calls[2].adapter = "alipay"
    /\ RowsFrom(calls[2].file) # {}

----------------------------------------------------------------------------
(* Properties of the cleaning steps and of repeated runs *)

\* C5: the cleaning steps are idempotent: cleaning an already cleaned table
\* gives the same table, no row dropped and no time or amount changed.
C5_Idempotent ==
    \A k \in 2..Len(passes) : k < Len(passes) => passes[k + 1] = passes[k]

\* C8: two runs of find_and_process_all_files over the same files return
\* the same records in the same order, whatever order the directory listing
\* returns the files in.
C8_SameResult ==
    (run = 2 /\ pc = "returned") => combined_df = first_result

----------------------------------------------------------------------------
(* Properties of the merger's result and of the main program *)

\* The calls so far that adapted their file: a frame came back.
AdaptedCalls == {i \in 1..Len(calls) : calls[i].result.kind = "DataFrame"}

\* C11: 'no data' (no file found, or every file failed) and 'data found but
\* empty' (a file was adapted without error, no record was valid) are told
\* apart by what find_and_process_all_files returns: None, the value that
\* says 'no data', is returned only when no file was adapted.
C11_NoDataDistinct ==
    (pc = "returned" /\ combined_df = ReturnNone) => AdaptedCalls = {}

\* A record of the sample data: time and amount present, the label 收入 with
\* an amount above zero or the label 支出 with an amount below zero.
IncomeOrExpense(r) ==
    /\ r[COL_TIME].k = "datetime"
    /\ r[COL_AMOUNT].k = "pyint"
    /\ \/ r[COL_DIRECTION] = Str(INCOME) /\ r[COL_AMOUNT].v > 0
       \/ r[COL_DIRECTION] = Str(EXPENSE) /\ r[COL_AMOUNT].v < 0

\* C12: when no file is found or every file found fails,
\* find_and_process_all_files does not raise and returns None; the data the
\* main program then takes from create_sample_data are 200 records, each
\* with a time and an amount, each an income (收入, amount > 0) or an expense
\* (支出, amount < 0).
C12_SampleFallback ==
    /\ AdaptedCalls = {} => pc # "raised"
    /\ (pc = "returned" /\ AdaptedCalls = {}) => combined_df = ReturnNone
    /\ sample_data # NoSample =>
          /\ combined_df = ReturnNone
          /\ sample_data.count = 200
          /\ sample_data.records # {}
          /\ \A r \in sample_data.records : IncomeOrExpense(r)

----------------------------------------------------------------------------
(* Properties of the adapters *)

\* The file a call was made on.
FileCalled(i) == CHOOSE d \in directory : d.name = calls[i].file

\* A WeChat export with its titles at row 16, an Alipay export with its
\* titles where find_header_row looks for them: the files that are adapted.
WellFormed(d) ==
    /\ d.parses = "ok"
    /\ \/ d.titles = WechatTitles /\ d.pre = skiprows
       \/ d.titles = AlipayTitles /\ d.pre < max_rows_to_check

\* The zero-based row indices of the rows of a table, in their order.
OutputLines(df) == [i \in 1..Len(df.rows) |-> df.rows[i].line]

\* The zero-based row indices of the records of a file, in their order.
DataLines(d) == [k \in 1..Len(d.data) |-> d.pre + k]

\* The record of a file at a row index.
RecordAt(d, n) == d.data[n - d.pre]

\* The WeChat calls made on well-formed files.
WechatCalls ==
    {i \in 1..Len(calls) : calls[i].adapter = "wechat" /\ WellFormed(FileCalled(i))}

\* The Alipay calls made on well-formed files.
AlipayCalls ==
    {i \in 1..Len(calls) : calls[i].adapter = "alipay" /\ WellFormed(FileCalled(i))}

\* The text of a direction label; an empty cell has none.
LabelIs(r, text) == r.dir.k = "str" /\ r.dir.s = text

LabelHolds(r, text) == r.dir.k = "str" /\ Contains(r.dir.s, text)

\* The label is '/' once the blanks around it are removed.
LabelStrippedIs(r, text) == r.dir.k = "str" /\ Strip(r.dir.s) = text

\* C13 as stated: the output of process_wechat_file is exactly the
\* sub-sequence of the data rows whose direction label is not '/' and whose
\* time and amount both parse, whatever the optional fields hold.
C13_ExactSubsequence ==
    \A i \in WechatCalls :
        LET d == FileCalled(i)
        IN  /\ calls[i].result.kind = "DataFrame"
            /\ OutputLines(calls[i].result.df) =
                  SelectSeq(DataLines(d),
                            LAMBDA n : /\ ~LabelIs(RecordAt(d, n), NEUTRAL_WECHAT)
                                       /\ TimeParses(RecordAt(d, n))
                                       /\ AmountParses(RecordAt(d, n)))

\* C13, amended: the output of process_wechat_file is exactly the
\* sub-sequence of the data rows whose direction label, the blanks around it
\* removed, is not '/' and whose time and amount both parse, whatever the
\* optional fields hold.
C13_StrippedSubsequence ==
    \A i \in WechatCalls :
        LET d == FileCalled(i)
        IN  /\ calls[i].result.kind = "DataFrame"
            /\ OutputLines(calls[i].result.df) =
                  SelectSeq(DataLines(d),
                            LAMBDA n : /\ ~LabelStrippedIs(RecordAt(d, n), NEUTRAL_WECHAT)
                                       /\ TimeParses(RecordAt(d, n))
                                       /\ AmountParses(RecordAt(d, n)))

\* The file of twenty records, three labelled '/' and two with an amount
\* that does not parse, has been adapted: fifteen records came out, records
\* without a counterparty among them.
C13_Witness ==
    \E i \in WechatCalls :
        /\ FileCalled(i).data = TwentyRecords
        /\ Len(calls[i].result.df.rows) = 15
        /\ \E k \in 1..15 : IsNull(calls[i].result.df.rows[k].cells[COL_PARTY])

\* The row of a file at index n is among the rows a call returned.
InOutput(i, n) ==
    \E k \in 1..Len(calls[i].result.df.rows) : calls[i].result.df.rows[k].line = n

\* The records of a file whose time and amount parse: what the filter alone
\* decides on.
Parsing(d) ==
    {n \in (d.pre + 1)..(d.pre + Len(d.data)) :
        TimeParses(RecordAt(d, n)) /\ AmountParses(RecordAt(d, n))}

\* C14 as stated: process_wechat_file drops a record iff its label equals
\* '/'; a label that holds '/' inside a longer text, or differs from '/' in
\* any character, is kept.
C14_ExactMatch ==
    \A i \in WechatCalls :
        /\ calls[i].result.kind = "DataFrame"
        /\ \A n \in Parsing(FileCalled(i)) :
              InOutput(i, n) <=> ~LabelIs(RecordAt(FileCalled(i), n), NEUTRAL_WECHAT)

\* C14, amended: process_wechat_file drops a record iff its label, the
\* blanks around it removed, equals '/'; a label that holds '/' inside a
\* longer text, or differs from '/' in any character that is not a blank at
\* either end, is kept.
C14_StrippedMatch ==
    \A i \in WechatCalls :
        /\ calls[i].result.kind = "DataFrame"
        /\ \A n \in Parsing(FileCalled(i)) :
              InOutput(i, n)
                  <=> ~LabelStrippedIs(RecordAt(FileCalled(i), n), NEUTRAL_WECHAT)

\* A WeChat file with a record labelled 'a/b' and one labelled ' / ' has
\* been adapted: the first is kept, the second dropped.
C14_Witness ==
    \E i \in WechatCalls :
        /\ FileCalled(i).data = <<RowSlashInside, RowSpacedSlash>>
        /\ OutputLines(calls[i].result.df) = <<skiprows + 1>>

\* C15: process_alipay_file drops a record iff its label holds '不计收支'
\* anywhere in it; a record without a label is kept; and each adapter tests
\* its own sentinel only: process_alipay_file keeps a record labelled '/',
\* process_wechat_file keeps a record whose label holds '不计收支'.
C15_SubstringMatch ==
    /\ \A i \in AlipayCalls :
          /\ calls[i].result.kind = "DataFrame"
          /\ \A n \in Parsing(FileCalled(i)) :
                /\ InOutput(i, n)
                      <=> ~LabelHolds(RecordAt(FileCalled(i), n), NEUTRAL_ALIPAY)
                /\ IsNull(RecordAt(FileCalled(i), n).dir) => InOutput(i, n)
                /\ LabelIs(RecordAt(FileCalled(i), n), NEUTRAL_WECHAT) => InOutput(i, n)
    /\ \A i \in WechatCalls :
          \A n \in Parsing(FileCalled(i)) :
              LabelHolds(RecordAt(FileCalled(i), n), NEUTRAL_ALIPAY) => InOutput(i, n)

\* An Alipay file with a record labelled 'x不计收支y' and a record without a
\* label has been adapted: the first is dropped, the second kept.
C15_Witness ==
    \E i \in AlipayCalls :
        /\ FileCalled(i).data = <<RowNotCountedInside, RowNullLabel>>
        /\ OutputLines(calls[i].result.df) = <<AlipayPreamble + 2>>

\* A WeChat export that parses but whose row 16 is not the title row, or
\* whose title row has no time or no amount column.
Malformed(d) ==
    /\ d.parses = "ok"
    /\ \/ d.pre # skiprows
       \/ \A j \in 1..Len(d.titles) : d.titles[j] # COL_TIME
       \/ \A j \in 1..Len(d.titles) : d.titles[j] # COL_AMOUNT_YUAN

\* C16: on a malformed WeChat export, process_wechat_file returns None and
\* no record of the file is produced.
C16_MalformedFails ==
    \A i \in 1..Len(calls) :
        (calls[i].adapter = "wechat" /\ Malformed(FileCalled(i))) =>
            /\ calls[i].result = ReturnNone
            /\ \A k \in 1..Len(all_dataframes) :
                  \A r \in 1..Len(all_dataframes[k].rows) :
                      all_dataframes[k].rows[r].file # calls[i].file

\* A WeChat export whose titles are at row 15, so that row 16 is its first
\* record, has been processed and None came back.
C16_Witness ==
    \E i \in 1..Len(calls) :
        /\ calls[i].adapter = "wechat"
        /\ FileCalled(i).pre = skiprows - 1
        /\ FileCalled(i).parses = "ok"
        /\ calls[i].result = ReturnNone
        /\ all_dataframes = <<>>

\* C17: when the keywords first come together at row h of an Alipay file,
\* process_alipay_file takes row h for the titles and the rows after it for
\* the records: the columns of its output are the titles of row h (and the
\* source tag), its records are the valid records of the rows after h in
\* their order, and no row at an index up to h is among them.
C17_HeaderThenData ==
    \A i \in AlipayCalls :
        LET d == FileCalled(i)
            h == calls[i].header.index
        IN  /\ calls[i].header = Found(d.pre)
            /\ calls[i].result.kind = "DataFrame"
            /\ calls[i].result.df.columns =
                  {d.titles[j] : j \in 1..Len(d.titles)} \cup {COL_SOURCE}
            /\ \A k \in 1..Len(calls[i].result.df.rows) :
                  calls[i].result.df.rows[k].line > h
            /\ OutputLines(calls[i].result.df) =
                  SelectSeq(DataLines(d),
                            LAMBDA n : /\ ~LabelHolds(RecordAt(d, n), NEUTRAL_ALIPAY)
                                       /\ TimeParses(RecordAt(d, n))
                                       /\ AmountParses(RecordAt(d, n)))

\* An Alipay file with its titles at row 3, a row with two of the keywords
\* before them: the locator gave 3 and the records are those of rows 4 and 5.
C17_Witness ==
    \E i \in AlipayCalls :
        /\ FileCalled(i).pre = 3
        /\ FileCalled(i).partial = {0}
        /\ calls[i].header = Found(3)
        /\ OutputLines(calls[i].result.df) = <<4, 5>>

\* What the amount texts of the records are worth, in units of 10^-Scale;
\* null for a text that is no signed decimal once the other characters are
\* removed.
ExpectedAmount(amount) ==
    CASE amount = Str(<<"8">>) -> Float(8 * Unit)
      [] amount = Str(<<"Y", "1", ".", "5", "0">>) -> Float(Unit + Unit \div 2)
      [] amount = Str(<<"-", "2", ".", "5">>) -> Float(-(2 * Unit + Unit \div 2))
      [] amount = Str(<<"a", "b">>) -> NaN
      [] amount = Str(<<"1", ".", "2", ".", "3">>) -> NaN
      [] amount = Str(<<"Y", "5", "-">>) -> NaN
      [] amount = NaN -> NaN

\* The records of a file that the filters keep and whose time parses: the
\* amount alone decides on them.
AmountDecides(d) ==
    {n \in (d.pre + 1)..(d.pre + Len(d.data)) :
        /\ RecordAt(d, n).dir \in {Str(INCOME), Str(EXPENSE)}
        /\ TimeParses(RecordAt(d, n))}

\* C18: in both adapters the amount of a record is its text with every
\* character other than a digit, '.' and '-' removed, parsed as a signed
\* decimal; a record whose text then does not parse (nothing left, two
\* points, a '-' that is not first) is dropped, no error is raised and the
\* other records are as they would be without it.
C18_AmountSanitized ==
    \A i \in WechatCalls \cup AlipayCalls :
        LET d == FileCalled(i)
        IN  /\ calls[i].result.kind = "DataFrame"
            /\ \A n \in AmountDecides(d) :
                  /\ InOutput(i, n) <=> ~IsNull(ExpectedAmount(RecordAt(d, n).amount))
                  /\ \A k \in 1..Len(calls[i].result.df.rows) :
                        calls[i].result.df.rows[k].line = n =>
                            /\ IsNumeric(calls[i].result.df.rows[k].cells[COL_AMOUNT])
                            /\ calls[i].result.df.rows[k].cells[COL_AMOUNT].v =
                                  ExpectedAmount(RecordAt(d, n).amount).v

\* A file with the amount 'Y5-' before the amount '-2.5' has been adapted:
\* the first record is dropped, the second has the amount -2.5.
C18_Witness ==
    \E i \in WechatCalls \cup AlipayCalls :
        /\ FileCalled(i).data = <<RowMinusLast, RowNegative>>
        /\ OutputLines(calls[i].result.df) = <<FileCalled(i).pre + 2>>
        /\ calls[i].result.df.rows[1].cells[COL_AMOUNT].v = -(2 * Unit + Unit \div 2)

\* C19: the renderer leaves the dataset it is given as it is: neither the
\* construction of the ChartVisualizer nor the export changes the merged
\* dataset.
C19_DatasetUnchanged ==
    [][(pc \in {"returned", "visualizer"}) => (combined_df' = combined_df)]_vars

\* len(combined_df[combined_df['数据源'] == source]), as the summary prints it.
source_count(df, source) ==
    Cardinality({i \in 1..Len(df.rows) : df.rows[i].cells[COL_SOURCE] = Str(source)})

\* The tag of the adapter of a call.
TagOf(adapter) == IF adapter = "wechat" THEN SOURCE_WECHAT ELSE SOURCE_ALIPAY

\* C20: every record process_wechat_file returns carries the source
\* '微信支付', every record process_alipay_file returns carries '支付宝'; every
\* merged record has one of the two tags, that of the adapter its file was
\* read by, and the two counts of the summary add up to the number of
\* merged records.
C20_SourceTags ==
    /\ \A i \in AdaptedCalls :
          \A k \in 1..Len(calls[i].result.df.rows) :
              calls[i].result.df.rows[k].cells[COL_SOURCE] = Str(TagOf(calls[i].adapter))
    /\ Returned =>
          /\ \A k \in 1..Len(combined_df.df.rows) :
                \E i \in AdaptedCalls :
                    /\ calls[i].file = combined_df.df.rows[k].file
                    /\ combined_df.df.rows[k].cells[COL_SOURCE]
                           = Str(TagOf(calls[i].adapter))
          /\ source_count(combined_df.df, SOURCE_WECHAT)
                + source_count(combined_df.df, SOURCE_ALIPAY)
                    = Len(combined_df.df.rows)

\* A WeChat file and an Alipay file have been merged: the summary counts
\* records of both sources.
C20_Witness ==
    /\ Returned
    /\ source_count(combined_df.df, SOURCE_WECHAT) > 0
    /\ source_count(combined_df.df, SOURCE_ALIPAY) > 0

----------------------------------------------------------------------------
(* Properties of the cleaning steps across the two adapters *)

\* C21: on a table with the canonical titles and no neutral rows, the
\* cleaning steps of process_wechat_file (time coercion, amount
\* sanitization, rejection of rows with a null) leave the same records with
\* the same values as the cleaning steps of process_alipay_file.
C21_SameCleaning ==
    Len(passes) >= 2 =>
        /\ pc = "clean_wechat" =>
              passes[2] = dropna(alipay_coerce(passes[1]), {COL_TIME, COL_AMOUNT})
        /\ pc = "clean_alipay" =>
              passes[2] = dropna(wechat_coerce(passes[1]), {COL_TIME, COL_AMOUNT})

\* A table of two rows has been cleaned by process_alipay_file's steps: the
\* row with the amount 'ab' is gone, the amount 'Y1.50' has become 1.5.
C21_Witness ==
    /\ pc = "clean_alipay"
    /\ Len(passes) >= 2
    /\ Len(passes[1].rows) = 2
    /\ passes[1].rows[1].cells[COL_AMOUNT] = Str(<<"a", "b">>)
    /\ passes[1].rows[2].cells[COL_AMOUNT] = Str(<<"Y", "1", ".", "5", "0">>)
    /\ Len(passes[2].rows) = 1
    /\ passes[2].rows[1].cells[COL_AMOUNT].v = Unit + Unit \div 2

----------------------------------------------------------------------------
(* Properties of the choice of the reader *)

\* C22: find_header_row and process_alipay_file read a path ending in
\* '.csv' as UTF-8 text and a path ending in '.xlsx' as a spreadsheet: the
\* file is adapted exactly when it is whole and stored in that encoding,
\* and then its valid records come out.  For a path with any other ending
\* find_header_row reports not-found whatever the file holds, and
\* process_alipay_file returns None: no record is produced.
C22_ByExtension ==
    \A i \in 1..Len(calls) :
        calls[i].adapter = "alipay" =>
            LET d == FileCalled(i)
                expected == IF EndsWith(d.name, EXT_CSV) THEN "utf8"
                            ELSE IF EndsWith(d.name, EXT_XLSX) THEN "xlsx"
                            ELSE "none"
            IN  /\ calls[i].result.kind = "DataFrame"
                      <=> (d.encoding = expected /\ d.parses = "ok")
                /\ calls[i].result.kind = "DataFrame" =>
                      /\ calls[i].header = Found(d.pre)
                      /\ \A n \in Parsing(d) :
                            InOutput(i, n)
                                <=> ~LabelHolds(RecordAt(d, n), NEUTRAL_ALIPAY)
                /\ calls[i].result.kind # "DataFrame" =>
                      /\ calls[i].result = ReturnNone
                      /\ calls[i].header = NotFound

\* A whole UTF-8 text file with a valid record, named 支付宝.txt, has been
\* given to process_alipay_file: not-found, None.
C22_Witness ==
    \E i \in 1..Len(calls) :
        /\ calls[i].adapter = "alipay"
        /\ FileCalled(i).name = NameAlipayTxt
        /\ FileCalled(i).encoding = "utf8"
        /\ FileCalled(i).parses = "ok"
        /\ FileCalled(i).data = <<RowOk2>>
        /\ calls[i].header = NotFound
        /\ calls[i].result = ReturnNone

----------------------------------------------------------------------------
(* Properties of failures *)

\* C23: process_alipay_file never raises: every call returns a table or
\* None; when the titles are found but no column is named 金额 or none is
\* named 交易时间, it returns None, as process_wechat_file does.
C23_AlipayNeverRaises ==
    \A i \in 1..Len(calls) :
        calls[i].adapter = "alipay" =>
            /\ calls[i].result.kind \in {"DataFrame", "None"}
            /\ (/\ calls[i].header.found
                /\ FileCalled(i).parses = "ok"
                /\ \/ \A j \in 1..Len(FileCalled(i).titles) :
                          FileCalled(i).titles[j] # COL_AMOUNT
                   \/ \A j \in 1..Len(FileCalled(i).titles) :
                          FileCalled(i).titles[j] # COL_TIME)
                  => calls[i].result = ReturnNone

\* C24: the run on sample data completes: the table of create_sample_data
\* has every column export_to_pdf reads without a test, 交易对方 among them,
\* and export_to_pdf on it returns without raising.
C24_SampleExportCompletes ==
    (sample_data # NoSample /\ pc \in {"exported", "export_raised"}) =>
        /\ COL_PARTY \in sample_data.columns
        /\ pc = "exported"

----------------------------------------------------------------------------
(* Properties of the discovery of files *)

\* The adapters a file has been handed to.
AdaptersOf(name) == {calls[i].adapter : i \in {j \in 1..Len(calls) : calls[j].file = name}}

\* C25: every discovered file is processed by exactly one adapter and no
\* source row contributes more than one record to the merged dataset; a file
\* that matches neither the WeChat pattern nor an Alipay pattern is never read.
C25_OneAdapterPerFile ==
    /\ \A i, j \in 1..Len(calls) : calls[i].file = calls[j].file => i = j
    /\ \A d \in directory : ~IsDiscovered(d) => AdaptersOf(d.name) = {}
    /\ pc = "returned" =>
          \A d \in directory : IsDiscovered(d) => Cardinality(AdaptersOf(d.name)) = 1
    /\ Returned =>
          \A i, j \in 1..Len(combined_df.df.rows) :
              (/\ combined_df.df.rows[i].file = combined_df.df.rows[j].file
               /\ combined_df.df.rows[i].line = combined_df.df.rows[j].line) => i = j

----------------------------------------------------------------------------
(* Properties of the choice between real data and sample data *)

\* The calls that yielded at least one valid record.
Yielded == {i \in 1..Len(calls) : HasData(calls[i].result)}

\* The main program has taken the branch that renders the merged dataset.
RendersReal ==
    pc \in {"visualizer", "exported", "export_raised"} /\ sample_data = NoSample

\* The main program has come to its end, by returning or by an exception.
MainEnded == pc \in {"exported", "export_raised", "raised"}

\* C26: find_and_process_all_files returns None or a dataset with at least
\* one record, never an empty dataset; the main program renders real data if
\* and only if at least one file yielded at least one valid record.
C26_NeverEmptyDataset ==
    /\ pc = "returned" => (combined_df = ReturnNone \/ HasData(combined_df))
    /\ RendersReal => Yielded # {}
    /\ sample_data # NoSample => Yielded = {}
    /\ (MainEnded /\ Yielded # {}) => RendersReal

----------------------------------------------------------------------------
(* Properties of what the adapters leave alone *)

\* The place of the title row a call read its table under.
HeaderOf(i) == IF calls[i].adapter = "wechat" THEN skiprows ELSE calls[i].header.index

\* The name a call gives the column of a title.
NameOf(i, title) == IF calls[i].adapter = "wechat" THEN wechat_columns(title) ELSE title

\* The cell of the source file that a cell of an output row was read from:
\* the one on the row's line under the title that became the column.
SourceCell(i, row, c) ==
    LET file == FileOf(FileCalled(i))
        titles == file.rows[HeaderOf(i) + 1]
        j == CHOOSE k \in 1..Len(titles) : NameOf(i, PyStr(titles[k])) = c
    IN  file.rows[row.line + 1][j]

\* C27: in every record an adapter outputs, each field other than the time
\* and the amount (category, counterparty, description, direction label,
\* payment method) has the value of the source row, and the records are in
\* the order their rows have in the file.
C27_FrameOfNormalization ==
    \A i \in AdaptedCalls :
        LET df == calls[i].result.df
        IN  /\ \A k \in 1..Len(df.rows) :
                  \A c \in df.columns \ {COL_TIME, COL_AMOUNT, COL_SOURCE} :
                      df.rows[k].cells[c] = SourceCell(i, df.rows[k], c)
            /\ \A k \in 1..(Len(df.rows) - 1) : df.rows[k].line < df.rows[k + 1].line

\* A WeChat file with every column and three records, the second dropped:
\* the two records output carry the payment method and the description under
\* their canonical names, the first of them with an empty counterparty.
C27_Witness ==
    \E i \in AdaptedCalls :
        LET df == calls[i].result.df
            d == FileCalled(i)
        IN  /\ calls[i].adapter = "wechat"
            /\ d.titles = WechatTitlesFull
            /\ Len(d.data) = 3
            /\ Len(df.rows) = 2
            /\ {COL_CATEGORY, COL_PARTY, COL_ITEM, COL_DIRECTION, COL_METHOD}
                  \subseteq df.columns
            /\ df.rows[1].cells[COL_PARTY] = NaN
            /\ df.rows[1].cells[COL_METHOD] = Str(<<"m">>)
            /\ df.rows[2].cells[COL_PARTY] = Str(<<"a">>)

====
